---- MODULE Spec2Model ----
(***************************************************************************)
(* A model of the Dropbox file handle of src/file.go: the File struct, its *)
(* paged directory listing (Readdir, _readDir, _readDirAll), its read      *)
(* stream (Read, ReadAt, Seek, seekRead, openReadStream), its write stream *)
(* (openWriteStream, Write, WriteAt, Close and the background upload       *)
(* goroutine) and its cached metadata (Stat).                              *)
(*                                                                         *)
(* The remote client (ListFolder, ListFolderContinue, Download, Upload,    *)
(* stat) is the environment: it answers as its contract says or fails with *)
(* a transport error, chosen nondeterministically.                         *)
(***************************************************************************)
EXTENDS Integers, Sequences, FiniteSets, TLC

VARIABLES
    \* ---- the fields of File (src/file.go:17-29)
    streamWrite,          \* "nil" or "writer": the pipe's writer
    streamRead,           \* NoStream or the download stream it refers to
    streamWriteCloseErr,  \* "nil", or the state of the channel it refers to
    streamWriteErr,       \* the error the upload goroutine stored
    dirList,              \* the buffered channel used as a queue of entries
    dirListCursor,        \* 0 is the empty cursor ""
    dirListDone,
    streamReadOffset,
    cachedInfo,
    \* ---- the remote side
    pages,                \* the directory listing as the server pages it
    remote,               \* the remote object: its size and modification time
    \* ---- control
    pipe,                 \* the io.Pipe between Write and the upload
    task,                 \* the upload goroutine of the open write stream
    pc,                   \* where the caller is
    ret,                  \* the last call that returned, with its result
    \* ---- history
    returned,             \* the entries Readdir(n > 0) has returned so far
    fetchFailed           \* whether a page fetch of Readdir(n > 0) has failed

fileVars == <<streamWrite, streamRead, streamWriteCloseErr, streamWriteErr,
              streamReadOffset, cachedInfo>>
dirVars  == <<dirList, dirListCursor, dirListDone>>
envVars  == <<pages, remote>>
ctlVars  == <<pipe, task, pc>>
histVars == <<returned, fetchFailed>>
vars == <<fileVars, dirVars, envVars, ctlVars, ret, histVars>>

----------------------------------------------------------------------------
(* Bounds of the model *)

\* the largest number of pages of a listing
MaxPages == 3
\* the largest number of entries of one page
MaxPageLen == 2
\* the largest count given to Readdir
MaxCount == 2

\* the size of the remote object when the handle is made
ObjSize == 3
\* the largest buffer given to Read and to Write
MaxChunk == 2
\* the largest offset given to Seek, ReadAt and WriteAt
MaxOff == 1
\* the largest number of bytes written to one write stream
MaxWritten == 1
\* the largest number of uploads that succeed
MaxUploads == 1

\* the offsets given to Seek, ReadAt and WriteAt
Offsets == -1..MaxOff
\* the largest position a seek is followed to: one past the object's end
MaxPos == ObjSize + 1
\* what the remote side does during a seek
SeekEnvs == {"ok", "closeFails", "downloadFails"}

\* a slip: a queue one entry short of the largest page
dirListingMaxLimitBelowPage == MaxPageLen - 1

\* src/file.go:32
dirListingMaxLimit == 2000

----------------------------------------------------------------------------
(* Errors *)

ErrNil           == "nil"
ErrNotSupported  == "ErrNotSupported"
ErrAlreadyOpened == "ErrAlreadyOpened"
ErrInvalidSeek   == "ErrInvalidSeek"
ErrFileClosed    == "ErrFileClosed"
ErrTransport     == "transport error"
ErrEOF           == "EOF"
\* io.ErrClosedPipe
ErrClosedPipe    == "io: read/write on closed pipe"
\* fmt.Errorf("couldn't read from stream: %w", err)
ErrReadStream    == "couldn't read from stream: transport error"
\* fmt.Errorf("couldn't close previous stream: %w", err)
ErrClosePrevious == "couldn't close previous stream: transport error"
\* fmt.Errorf("couldn't download file: %w", err)
ErrDownload      == "couldn't download file: transport error"
\* the error files.Upload returns
ErrUpload        == "upload: transport error"
\* the error of the metadata fetch
ErrStat          == "stat: transport error"
\* fmt.Errorf("couldn't fetch files list: %w", err)
ErrFetchList     == "couldn't fetch files list: transport error"
\* a nil pointer dereference: the program panics
Panic            == "panic: nil pointer dereference"

Returned(op, arg, val, data, err) ==
    [op |-> op, arg |-> arg, val |-> val, data |-> data, err |-> err]

----------------------------------------------------------------------------
(* Sequences *)

RECURSIVE Flatten(_)
Flatten(ss) == IF ss = <<>> THEN <<>> ELSE Head(ss) \o Flatten(Tail(ss))

Take(s, n) == SubSeq(s, 1, IF n < Len(s) THEN n ELSE Len(s))
Drop(s, n) == SubSeq(s, (IF n < Len(s) THEN n ELSE Len(s)) + 1, Len(s))
IsPrefix(s, t) == Len(s) <= Len(t) /\ SubSeq(t, 1, Len(s)) = s

----------------------------------------------------------------------------
(* The directory listing of the server: pages of entries.  The entries of  *)
(* a listing are numbered 1, 2, ... in server order.                       *)

RECURSIVE PagesFrom(_, _)
PagesFrom(sizes, base) ==
    IF sizes = <<>> THEN <<>>
    ELSE <<[i \in 1..Head(sizes) |-> base + i]>>
         \o PagesFrom(Tail(sizes), base + Head(sizes))

Listings ==
    { PagesFrom(sizes, 0) :
        sizes \in UNION { [1..n -> 0..MaxPageLen] : n \in 1..MaxPages } }

AllEntries == Flatten(pages)

\* the k-th page as the server answers it; the cursor it issues is k
ServerPage(k) ==
    [Entries |-> pages[k], Cursor |-> k, HasMore |-> k < Len(pages)]

\* files.ListFolder: the first page
ListFolder == ServerPage(1)

\* files.ListFolderContinue: the page after the one that issued the cursor
ListFolderContinue(cursor) ==
    IF cursor < Len(pages) THEN ServerPage(cursor + 1)
    ELSE [Entries |-> <<>>, Cursor |-> cursor, HasMore |-> FALSE]

----------------------------------------------------------------------------
(* _readDirAll: every page, from a local cursor.  failIn = k > 0 makes the *)
(* k-th fetch of the call fail.                                            *)

RECURSIVE readDirAllLoop(_, _, _)
readDirAllLoop(fis, cursor, failIn) ==
    IF failIn = 1 THEN [list |-> <<>>, err |-> ErrTransport]
    ELSE LET resp == IF cursor = 0 THEN ListFolder
                     ELSE ListFolderContinue(cursor)
             all  == fis \o resp.Entries
         IN  IF ~resp.HasMore THEN [list |-> all, err |-> ErrNil]
             ELSE readDirAllLoop(all, resp.Cursor, failIn - 1)

\* a slip: the listing is resumed from the cursor stored in the handle
readDirAllFromStoredCursor(failIn) ==
    readDirAllLoop(<<>>, dirListCursor, failIn)

_readDirAll(failIn) == readDirAllLoop(<<>>, 0, failIn)

(* _readDir: one fetch into the queue.  s is the paging state of the       *)
(* handle: [dirList, dirListCursor, dirListDone].  A page that does not    *)
(* fit the channel blocks the send for ever: there is no receiver.         *)

_readDir(s, fail) ==
    LET first == s.dirListCursor = 0
        queue == IF first THEN <<>> ELSE s.dirList
        res   == IF first THEN ListFolder
                 ELSE ListFolderContinue(s.dirListCursor)
        room  == dirListingMaxLimit - Len(queue)
    IN  IF fail
        THEN [err |-> ErrFetchList, st |-> [s EXCEPT !.dirList = queue]]
        ELSE [err |-> IF Len(res.Entries) > room THEN "blocked" ELSE ErrNil,
              st  |-> [dirList       |-> queue \o Take(res.Entries, room),
                       dirListCursor |-> res.Cursor,
                       dirListDone   |-> ~res.HasMore]]

\* the inner loop of Readdir: drain the queue into the list
Drain(list, s, count) ==
    LET k == IF count - Len(list) < Len(s.dirList)
             THEN count - Len(list) ELSE Len(s.dirList)
    IN  [list |-> list \o Take(s.dirList, k),
         st   |-> [s EXCEPT !.dirList = Drop(s.dirList, k)]]

\* a slip: a page is fetched on every iteration, the buffer empty or not
RECURSIVE ReaddirLoopFetchesAlways(_, _, _, _)
ReaddirLoopFetchesAlways(list, s, count, failIn) ==
    IF ~(Len(list) < count /\ ~s.dirListDone)
    THEN [list |-> list, err |-> ErrNil, st |-> s]
    ELSE LET r == _readDir(s, failIn = 1)
         IN  IF r.err # ErrNil
             THEN [list |-> <<>>, err |-> r.err, st |-> r.st]
             ELSE LET d == Drain(list, r.st, count)
                  IN  ReaddirLoopFetchesAlways(d.list, d.st, count,
                                               failIn - 1)

\* the outer loop of Readdir (src/file.go:279-292)
RECURSIVE ReaddirLoop(_, _, _, _)
ReaddirLoop(list, s, count, failIn) ==
    IF ~(Len(list) < count /\ ~s.dirListDone)
    THEN [list |-> list, err |-> ErrNil, st |-> s]
    ELSE IF Len(s.dirList) = 0
         THEN LET r == _readDir(s, failIn = 1)
              IN  IF r.err # ErrNil
                  THEN [list |-> <<>>, err |-> r.err, st |-> r.st]
                  ELSE LET d == Drain(list, r.st, count)
                       IN  ReaddirLoop(d.list, d.st, count, failIn - 1)
         ELSE LET d == Drain(list, s, count)
              IN  ReaddirLoop(d.list, d.st, count, failIn)

\* one pass of the body of the outer loop (src/file.go:280-289): a fetch
\* when the queue is empty, then the inner loop
ReaddirStep(list, s, count, fail) ==
    IF Len(s.dirList) = 0
    THEN LET r == _readDir(s, fail)
         IN  IF r.err # ErrNil
             THEN [list |-> <<>>, err |-> r.err, st |-> r.st]
             ELSE LET d == Drain(list, r.st, count)
                  IN  [list |-> d.list, err |-> ErrNil, st |-> d.st]
    ELSE LET d == Drain(list, s, count)
         IN  [list |-> d.list, err |-> ErrNil, st |-> d.st]

DirState == [dirList |-> dirList, dirListCursor |-> dirListCursor,
             dirListDone |-> dirListDone]

\* Readdir(count): the whole call
Readdir(count, failIn) ==
    /\ pc = "idle"
    /\ IF count <= 0
       THEN \E r \in {_readDirAll(failIn)} :
                /\ ret' = Returned("Readdir", <<count>>, 0, r.list, r.err)
                /\ UNCHANGED <<dirVars, histVars, pc>>
       ELSE \E r \in {ReaddirLoop(<<>>, DirState, count, failIn)} :
                /\ dirList' = r.st.dirList
                /\ dirListCursor' = r.st.dirListCursor
                /\ dirListDone' = r.st.dirListDone
                /\ ret' = Returned("Readdir", <<count>>, 0, r.list, r.err)
                /\ returned' = returned \o r.list
                /\ fetchFailed' = (fetchFailed \/ r.err = ErrFetchList)
                /\ pc' = IF r.err = "blocked" THEN "blocked" ELSE pc
    /\ UNCHANGED <<fileVars, envVars, pipe, task>>

----------------------------------------------------------------------------

(* The read stream.  A byte of the remote object is named by its absolute  *)
(* offset in the object: a download from offset r delivers r, r + 1, ...   *)
(* up to the object's size.                                                *)

NoStream == [state |-> "nil", pos |-> 0, end |-> 0]

\* io.SeekStart, io.SeekCurrent, io.SeekEnd
SeekStart   == 0
SeekCurrent == 1
SeekEnd     == 2
Whences == {SeekStart, SeekCurrent, SeekEnd}

NoRange == -1

\* a slip: the Range header is left out for the first byte too
DownloadArgOffByOne(startAt) ==
    [Range |-> IF startAt > 1 THEN startAt ELSE NoRange]

\* the request of openReadStream: a Range header only when startAt > 0
DownloadArg(startAt) ==
    [Range |-> IF startAt > 0 THEN startAt ELSE NoRange]

\* files.Download: the object from the range's start, or all of it
Download(req, fail) ==
    IF fail THEN [stream |-> NoStream, err |-> ErrTransport]
    ELSE [stream |-> [state |-> "open",
                      pos   |-> IF req.Range = NoRange THEN 0 ELSE req.Range,
                      end   |-> remote.size],
          err |-> ErrNil]

\* h is the read side of the handle: [streamRead, streamReadOffset]
openReadStream(h, startAt, fail) ==
    LET d == Download(DownloadArg(startAt), fail)
    IN  [h   |-> [streamRead |-> d.stream, streamReadOffset |-> startAt],
         err |-> IF d.err = ErrNil THEN ErrNil ELSE ErrDownload]

\* the metadata of the handle
NoInfo == [kind |-> "nil", size |-> 0, mtime |-> 0]
\* newFileInfo of metadata the server reported
FileInfo(meta) == [kind |-> "file", size |-> meta.size, mtime |-> meta.mtime]
\* newFileInfo(nil): a FileInfo around a nil *FileMetadata
NilMetaInfo == [kind |-> "nilmeta", size |-> 0, mtime |-> 0]
NoMeta == [size |-> -1, mtime |-> -1]
newFileInfo(meta) == IF meta = NoMeta THEN NilMetaInfo ELSE FileInfo(meta)

\* whether FileInfo.Size() can be called: a nil interface and a nil
\* *FileMetadata are dereferenced
HasSize(info) == info.kind = "file"

\* the target of a seek (src/file.go:397-406)
StartByte(h, offset, whence) ==
    CASE whence = SeekStart   -> offset
      [] whence = SeekCurrent -> h.streamReadOffset + offset
      [] whence = SeekEnd     -> cachedInfo.size - offset
      [] OTHER                -> 0

\* env is what the remote side does during the call: the close of the old
\* stream fails, the new download fails, or both succeed
seekRead(h, offset, whence, env) ==
    LET startByte == StartByte(h, offset, whence)
    IN  IF whence = SeekEnd /\ ~HasSize(cachedInfo)
        THEN [h |-> h, val |-> 0, err |-> Panic]
        ELSE IF env = "closeFails"
        THEN [h   |-> [h EXCEPT !.streamRead.state = "closed"],
              val |-> 0, err |-> ErrClosePrevious]
        ELSE IF startByte < 0
        THEN [h   |-> [h EXCEPT !.streamRead = NoStream],
              val |-> startByte, err |-> ErrInvalidSeek]
        ELSE LET o == openReadStream([h EXCEPT !.streamRead = NoStream],
                                     startByte, env = "downloadFails")
             IN  [h |-> o.h, val |-> startByte, err |-> o.err]

\* a slip: the read stream is looked at before the write stream
SeekOpReadFirst(h, offset, whence, env) ==
    IF h.streamRead # NoStream
    THEN seekRead(h, offset, whence, env)
    ELSE IF streamWrite # "nil"
    THEN [h |-> h, val |-> 0, err |-> ErrNotSupported]
    ELSE [h |-> h, val |-> 0, err |-> ErrFileClosed]

\* File.Seek on the handle
SeekOp(h, offset, whence, env) ==
    IF streamWrite # "nil"
    THEN [h |-> h, val |-> 0, err |-> ErrNotSupported]
    ELSE IF h.streamRead # NoStream
    THEN seekRead(h, offset, whence, env)
    ELSE [h |-> h, val |-> 0, err |-> ErrFileClosed]

\* what is left of a stream
Remaining(st) == IF st.end > st.pos THEN st.end - st.pos ELSE 0

Bytes(from, n) == [i \in 1..n |-> from + i - 1]

\* the outcomes of one Read of the stream into a buffer of len bytes:
\* n bytes, n bytes together with io.EOF, or a transport error
StreamReads(st, len) ==
    IF st.state = "closed" THEN {[n |-> 0, err |-> ErrTransport]}
    ELSE LET most == IF Remaining(st) < len THEN Remaining(st) ELSE len
         IN  {[n |-> n, err |-> ErrNil] : n \in 1..most}
             \cup (IF Remaining(st) <= len
                   THEN {[n |-> Remaining(st), err |-> ErrEOF]} ELSE {})
             \cup {[n |-> 0, err |-> ErrTransport]}

\* File.Read with the stream's answer r
ReadOp(h, r) ==
    IF h.streamRead = NoStream
    THEN [h |-> h, val |-> 0, data |-> <<>>, err |-> Panic]
    ELSE LET moved == [h EXCEPT !.streamRead.pos = @ + r.n]
             data  == Bytes(h.streamRead.pos, r.n)
         IN  IF r.err = ErrEOF
             THEN [h |-> moved, val |-> r.n, data |-> data, err |-> ErrEOF]
             ELSE IF r.err # ErrNil
             THEN [h |-> moved, val |-> 0, data |-> <<>>, err |-> ErrReadStream]
             ELSE [h   |-> [moved EXCEPT !.streamReadOffset = @ + r.n],
                   val |-> r.n, data |-> data, err |-> ErrNil]

ReadSide == [streamRead |-> streamRead, streamReadOffset |-> streamReadOffset]

\* File.Seek reaches the remote side only through seekRead, which it calls
\* with no write stream and an open read stream; otherwise the remote side
\* takes no part in the call
RemoteEnvs ==
    IF streamWrite = "nil" /\ streamRead # NoStream THEN SeekEnvs ELSE {"ok"}

\* the answers a stream can give to the Read of handle state h
ReadAnswers(h, len) ==
    IF h.streamRead = NoStream THEN {[n |-> 0, err |-> ErrNil]}
    ELSE StreamReads(h.streamRead, len)

SetReadSide(h) ==
    /\ streamRead' = h.streamRead
    /\ streamReadOffset' = h.streamReadOffset

Return(op, arg, val, data, err) ==
    /\ ret' = Returned(op, arg, val, data, err)
    /\ pc' = IF err = Panic THEN "crashed" ELSE "idle"

----------------------------------------------------------------------------
(* The calls on the read side *)

\* the Fs opens the handle for reading: openReadStream(0)
OpenRead(fail) ==
    /\ pc = "idle"
    /\ \E o \in {openReadStream(ReadSide, 0, fail)} :
          SetReadSide(o.h) /\ Return("OpenRead", <<>>, 0, <<>>, o.err)
    /\ UNCHANGED <<streamWrite, streamWriteCloseErr, streamWriteErr,
                   cachedInfo, dirVars, envVars, pipe, task, histVars>>

Read(len) ==
    /\ pc = "idle"
    /\ \E r \in ReadAnswers(ReadSide, len) :
          \E o \in {ReadOp(ReadSide, r)} :
              SetReadSide(o.h) /\ Return("Read", <<>>, o.val, o.data, o.err)
    /\ UNCHANGED <<streamWrite, streamWriteCloseErr, streamWriteErr,
                   cachedInfo, dirVars, envVars, pipe, task, histVars>>

Seek(offset, whence, env) ==
    /\ pc = "idle"
    /\ \E o \in {SeekOp(ReadSide, offset, whence, env)} :
          /\ o.val <= MaxPos
          /\ SetReadSide(o.h)
          /\ Return("Seek", <<whence>>, o.val, <<>>, o.err)
    /\ UNCHANGED <<streamWrite, streamWriteCloseErr, streamWriteErr,
                   cachedInfo, dirVars, envVars, pipe, task, histVars>>

\* ReadAt: Seek(off, io.SeekCurrent), then Read
ReadAt(len, off, env) ==
    /\ pc = "idle"
    /\ \E s \in {SeekOp(ReadSide, off, SeekCurrent, env)} :
          /\ s.val <= MaxPos
          /\ IF s.err # ErrNil
             THEN SetReadSide(s.h)
                  /\ Return("ReadAt", <<>>, 0, <<>>, s.err)
             ELSE \E r \in ReadAnswers(s.h, len) :
                     \E o \in {ReadOp(s.h, r)} :
                         SetReadSide(o.h)
                         /\ Return("ReadAt", <<>>, o.val, o.data, o.err)
    /\ UNCHANGED <<streamWrite, streamWriteCloseErr, streamWriteErr,
                   cachedInfo, dirVars, envVars, pipe, task, histVars>>

----------------------------------------------------------------------------
(* The write side: the pipe, the upload goroutine and Close *)

NewPipe == [closed |-> FALSE, pending |-> 0]
NoTask  == [pc |-> "none", got |-> 0, meta |-> NoMeta, err |-> ErrNil]

\* a slip: a second write stream replaces the one that is open
openWriteStreamUnguarded ==
    /\ pc = "idle"
    /\ remote.mtime < MaxUploads
    /\ cachedInfo' = NoInfo
    /\ pipe' = NewPipe
    /\ streamWriteCloseErr' = "open"
    /\ streamWrite' = "writer"
    /\ task' = [NoTask EXCEPT !.pc = "upload"]
    /\ Return("OpenWrite", <<>>, 0, <<>>, ErrNil)
    /\ UNCHANGED <<streamRead, streamReadOffset, streamWriteErr, dirVars,
                   envVars, histVars>>

openWriteStream ==
    /\ pc = "idle"
    /\ IF streamWrite # "nil"
       THEN /\ Return("OpenWrite", <<>>, 0, <<>>, ErrAlreadyOpened)
            /\ UNCHANGED <<cachedInfo, pipe, streamWriteCloseErr, streamWrite,
                           task>>
       ELSE /\ remote.mtime < MaxUploads
            /\ cachedInfo' = NoInfo
            /\ pipe' = NewPipe
            /\ streamWriteCloseErr' = "open"
            /\ streamWrite' = "writer"
            /\ task' = [NoTask EXCEPT !.pc = "upload"]
            /\ Return("OpenWrite", <<>>, 0, <<>>, ErrNil)
    /\ UNCHANGED <<streamRead, streamReadOffset, streamWriteErr, dirVars,
                   envVars, histVars>>

\* f.streamWrite.Write(p): a nil writer panics, a closed pipe refuses, an
\* open pipe blocks the caller until the upload has read the bytes
WriteCall(op, arg, len) ==
    IF streamWrite = "nil"
    THEN Return(op, arg, 0, <<>>, Panic) /\ UNCHANGED pipe
    ELSE IF pipe.closed
    THEN Return(op, arg, 0, <<>>, ErrClosedPipe) /\ UNCHANGED pipe
    ELSE /\ len <= MaxWritten - task.got
         /\ pipe' = [pipe EXCEPT !.pending = len]
         /\ pc' = "Write"
         /\ UNCHANGED ret

Write(len) ==
    /\ pc = "idle"
    /\ WriteCall("Write", <<>>, len)
    /\ UNCHANGED <<fileVars, dirVars, envVars, task, histVars>>

\* WriteAt: Seek(off, io.SeekCurrent), then Write
WriteAt(len, off, env) ==
    /\ pc = "idle"
    /\ \E s \in {SeekOp(ReadSide, off, SeekCurrent, env)} :
          /\ s.val <= MaxPos
          /\ SetReadSide(s.h)
          /\ IF s.err # ErrNil
             THEN Return("WriteAt", <<>>, 0, <<>>, s.err)
                  /\ UNCHANGED pipe
             ELSE WriteCall("WriteAt", <<>>, len)
    /\ UNCHANGED <<streamWrite, streamWriteCloseErr, streamWriteErr,
                   cachedInfo, dirVars, envVars, task, histVars>>

\* the Upload call reads what a blocked Write offers; the Write returns
TaskRead ==
    /\ task.pc = "upload" /\ pc = "Write" /\ pipe.pending > 0
    /\ task' = [task EXCEPT !.got = @ + pipe.pending]
    /\ pipe' = [pipe EXCEPT !.pending = 0]
    /\ Return("Write", <<>>, pipe.pending, <<>>, ErrNil)
    /\ UNCHANGED <<fileVars, dirVars, envVars, histVars>>

\* files.Upload returns: with the new metadata once it has read the end of
\* the data, or with an error at any time
TaskUploaded(fail) ==
    /\ task.pc = "upload"
    /\ IF fail
       THEN /\ task' = [task EXCEPT !.pc = "returned", !.meta = NoMeta,
                                    !.err = ErrUpload]
            /\ UNCHANGED remote
       ELSE /\ pipe.closed /\ pipe.pending = 0
            /\ remote' = [size |-> task.got, mtime |-> remote.mtime + 1]
            /\ task' = [task EXCEPT !.pc = "returned", !.meta = remote',
                                    !.err = ErrNil]
    /\ UNCHANGED <<fileVars, dirVars, pages, pipe, pc, ret, histVars>>

\* a slip: the goroutine does not store the metadata of the upload
CachedAfterUploadStale == cachedInfo

\* src/file.go:366: what the goroutine caches once Upload has returned
CachedAfterUpload == newFileInfo(task.meta)

\* a slip: the goroutine stores the error but leaves the pipe open
TaskFinishKeepsPipeOpen ==
    /\ task.pc = "returned"
    /\ IF task.err # ErrNil
       THEN streamWriteErr' = task.err
       ELSE UNCHANGED streamWriteErr
    /\ cachedInfo' = CachedAfterUpload
    /\ task' = [task EXCEPT !.pc = "send"]
    /\ UNCHANGED <<streamWrite, streamRead, streamWriteCloseErr,
                   streamReadOffset, dirVars, envVars, histVars, pipe, pc,
                   ret>>

\* src/file.go:361-366: what the goroutine does once Upload has returned
TaskFinish ==
    /\ task.pc = "returned"
    /\ IF task.err # ErrNil
       THEN /\ streamWriteErr' = task.err
            /\ IF streamWrite = "nil"
               THEN /\ pc' = "crashed"
                    /\ ret' = Returned("go", <<>>, 0, <<>>, Panic)
                    /\ UNCHANGED pipe
               ELSE /\ pipe' = [closed |-> TRUE, pending |-> 0]
                    /\ IF pc = "Write"
                       THEN Return("Write", <<>>, 0, <<>>,
                                   ErrClosedPipe)
                       ELSE UNCHANGED <<pc, ret>>
       ELSE UNCHANGED <<streamWriteErr, pipe, pc, ret>>
    /\ cachedInfo' = CachedAfterUpload
    /\ task' = [task EXCEPT !.pc = "send"]
    /\ UNCHANGED <<streamWrite, streamRead, streamWriteCloseErr,
                   streamReadOffset, dirVars, envVars, histVars>>

\* what Close returns for the value received from the goroutine
CloseResult(err) == err

\* a slip: Close waits for the goroutine without closing the pipe
CloseKeepsPipeOpen(closeFails) ==
    /\ pc = "idle"
    /\ IF streamRead # NoStream
       THEN /\ streamRead' = NoStream
            /\ Return("Close", <<"read">>, 0, <<>>,
                      IF closeFails THEN ErrTransport ELSE ErrNil)
            /\ UNCHANGED <<streamWrite, streamWriteCloseErr, pipe>>
       ELSE IF streamWrite # "nil"
       THEN /\ pc' = "Close"
            /\ UNCHANGED <<streamRead, streamWrite, streamWriteCloseErr, ret,
                           pipe>>
       ELSE /\ Return("Close", <<"none">>, 0, <<>>, ErrNil)
            /\ UNCHANGED <<streamRead, streamWrite, streamWriteCloseErr, pipe>>
    /\ UNCHANGED <<streamWriteErr, streamReadOffset, cachedInfo, dirVars,
                   envVars, task, histVars>>

\* File.Close up to the point where it returns or waits for the goroutine
Close(closeFails) ==
    /\ pc = "idle"
    /\ IF streamRead # NoStream
       THEN /\ streamRead' = NoStream
            /\ Return("Close", <<"read">>, 0, <<>>,
                      IF closeFails THEN ErrTransport ELSE ErrNil)
            /\ UNCHANGED <<streamWrite, streamWriteCloseErr, pipe>>
       ELSE IF streamWrite # "nil"
       THEN /\ pipe' = [pipe EXCEPT !.closed = TRUE]
            /\ pc' = "Close"
            /\ UNCHANGED <<streamRead, streamWrite, streamWriteCloseErr, ret>>
       ELSE /\ Return("Close", <<"none">>, 0, <<>>, ErrNil)
            /\ UNCHANGED <<streamRead, streamWrite, streamWriteCloseErr, pipe>>
    /\ UNCHANGED <<streamWriteErr, streamReadOffset, cachedInfo, dirVars,
                   envVars, task, histVars>>

\* a slip: the goroutine sends again after its value was received
HandshakeSendsAgain ==
    /\ task.pc = "send" /\ pc = "Close" /\ streamWriteCloseErr = "open"
    /\ streamWrite' = "nil"
    /\ streamWriteCloseErr' = "nil"
    /\ task' = task
    /\ Return("Close", <<"write">>, 0, <<>>, task.err)
    /\ UNCHANGED <<streamRead, streamWriteErr, streamReadOffset, cachedInfo,
                   dirVars, envVars, pipe, histVars>>

\* the goroutine's send meets the receive of Close (src/file.go:367, 69-72);
\* the goroutine ends, and task keeps the metadata its upload got, as history
Handshake ==
    /\ task.pc = "send" /\ pc = "Close" /\ streamWriteCloseErr = "open"
    /\ streamWrite' = "nil"
    /\ streamWriteCloseErr' = "nil"
    /\ task' = [NoTask EXCEPT !.meta = task.meta]
    /\ Return("Close", <<"write">>, 0, <<>>, CloseResult(task.err))
    /\ UNCHANGED <<streamRead, streamWriteErr, streamReadOffset, cachedInfo,
                   dirVars, envVars, pipe, histVars>>

----------------------------------------------------------------------------
(* Stat, Truncate, Sync *)

\* fs.stat: the metadata of the remote object, or an error
stat(fail) ==
    IF fail THEN [info |-> NoInfo, err |-> ErrStat]
    ELSE [info |-> FileInfo(remote), err |-> ErrNil]

\* a slip: Stat fetches the metadata whether it is cached or not
StatIgnoresCache ==
    /\ pc = "idle"
    /\ pc' = "Stat"
    /\ UNCHANGED <<fileVars, dirVars, envVars, pipe, task, histVars, ret>>

\* File.Stat up to the point where it returns or fetches
Stat ==
    /\ pc = "idle"
    /\ IF cachedInfo = NoInfo
       THEN pc' = "Stat" /\ UNCHANGED ret
       ELSE Return("Stat", <<>>, 0, <<cachedInfo>>, ErrNil)
    /\ UNCHANGED <<fileVars, dirVars, envVars, pipe, task, histVars>>

\* the fetch returns and Stat stores what it got
StatFetched(fail) ==
    /\ pc = "Stat"
    /\ \E r \in {stat(fail)} :
          /\ cachedInfo' = r.info
          /\ Return("Stat", <<>>, 1, <<r.info>>, r.err)
    /\ UNCHANGED <<streamWrite, streamRead, streamWriteCloseErr,
                   streamWriteErr, streamReadOffset, dirVars, envVars, pipe,
                   task, histVars>>

Truncate(size) ==
    /\ pc = "idle"
    /\ Return("Truncate", <<>>, 0, <<>>, ErrNotSupported)
    /\ UNCHANGED <<fileVars, dirVars, envVars, pipe, task, histVars>>

Sync ==
    /\ pc = "idle"
    /\ Return("Sync", <<>>, 0, <<>>, ErrNil)
    /\ UNCHANGED <<fileVars, dirVars, envVars, pipe, task, histVars>>

----------------------------------------------------------------------------
(* The handle after newFile *)

InitFile ==
    /\ streamWrite = "nil"
    /\ streamRead = NoStream
    /\ streamWriteCloseErr = "open"
    /\ streamWriteErr = ErrNil
    /\ dirList = <<>>
    /\ dirListCursor = 0
    /\ dirListDone = FALSE
    /\ streamReadOffset = 0
    /\ cachedInfo = NoInfo
    /\ remote = [size |-> ObjSize, mtime |-> 0]
    /\ pipe = NewPipe
    /\ task = NoTask
    /\ pc = "idle"
    /\ ret = Returned("newFile", <<>>, 0, <<>>, ErrNil)
    /\ returned = <<>>
    /\ fetchFailed = FALSE

Init == InitFile /\ pages = <<<<>>>>

Next ==
    \/ \E fail \in BOOLEAN : OpenRead(fail)
    \/ \E len \in 1..MaxChunk : Read(len)
    \/ \E offset \in Offsets, whence \in Whences, env \in RemoteEnvs :
          Seek(offset, whence, env)
    \/ \E len \in 1..MaxChunk, off \in Offsets, env \in RemoteEnvs :
          ReadAt(len, off, env)
    \/ openWriteStream
    \/ \E len \in 1..MaxChunk : Write(len)
    \/ \E len \in 1..MaxChunk, off \in Offsets, env \in RemoteEnvs :
          WriteAt(len, off, env)
    \/ \E fail \in BOOLEAN : Close(fail)
    \/ Stat
    \/ \E fail \in BOOLEAN : StatFetched(fail)
    \/ \E size \in Offsets : Truncate(size)
    \/ Sync
    \/ TaskRead
    \/ \E fail \in BOOLEAN : TaskUploaded(fail)
    \/ TaskFinish
    \/ Handshake

Spec == Init /\ [][Next]_vars

\* The goroutine is scheduled fairly, and the Upload call returns once it
\* has read the end of the data (it may fail at any time before); nothing
\* is assumed of the caller or of the other remote calls.
TaskFair ==
    /\ WF_vars(TaskRead)
    /\ WF_vars(TaskUploaded(FALSE))
    /\ WF_vars(TaskFinish)
    /\ WF_vars(Handshake)

SpecLive == Spec /\ TaskFair

\* a handle on a directory the server lists in any of the bounded ways
InitDir == InitFile /\ pages \in Listings

\* the most fetches a Readdir(count) can make: _readDirAll fetches every
\* page, the paged listing the pages after its cursor
MaxFetches(count) ==
    IF count <= 0 THEN Len(pages)
    ELSE IF dirListDone THEN 0 ELSE Len(pages) - dirListCursor

NextDir ==
    \E count \in -1..MaxCount :
        \E failIn \in 0..MaxFetches(count) : Readdir(count, failIn)

SpecDir == InitDir /\ [][NextDir]_vars

----------------------------------------------------------------------------
(* Claims on the directory listing, checked under SpecDir *)

NoDuplicates(s) == \A i, j \in 1..Len(s) : s[i] = s[j] => i = j

\* the last call that returned is Readdir(count), which returned no error
ReaddirReturned ==
    ret.op = "Readdir" /\ ret.err = ErrNil

\* C1: when the server delivers every page (no fetch has failed), the
\* entries the Readdir(n > 0) calls have returned, concatenated, are a
\* duplicate-free prefix of all pages in server order, and a call returns
\* fewer than n entries only when every entry has been returned.
C1_PagedListingComplete ==
    ~fetchFailed =>
        /\ IsPrefix(returned, AllEntries)
        /\ NoDuplicates(returned)
        /\ (ReaddirReturned /\ ret.arg[1] > 0 /\ Len(ret.data) < ret.arg[1]
                => returned = AllEntries)

\* a step in which Readdir(count) with count <= 0 returns: under SpecDir
\* every step is a Readdir call, and ret' holds its count and its result
ReadAllReturns == ret'.op = "Readdir" /\ ret'.arg[1] <= 0

\* C7 as claimed: every Readdir(count <= 0) returns all pages, in order,
\* and changes neither the cursor, the done flag nor the buffer.
C7_ReadAllAlwaysComplete ==
    [][ReadAllReturns =>
          /\ ret'.data = AllEntries
          /\ UNCHANGED dirVars]_vars

\* C7 as amended: a Readdir(count <= 0) whose page fetches all succeed
\* returns all pages, in order; one whose fetch fails returns that error and
\* no entry; neither changes the cursor, the done flag or the buffer.
C7_ReadAllComplete ==
    [][ReadAllReturns =>
          /\ ret'.err \in {ErrNil, ErrTransport}
          /\ ret'.err = ErrNil => ret'.data = AllEntries
          /\ ret'.err # ErrNil => ret'.data = <<>>
          /\ UNCHANGED dirVars]_vars

\* C7 witness: all entries of a listing of several pages were returned by
\* Readdir(count <= 0) on a handle whose paged listing is partly consumed
C7_Witness ==
    /\ ReaddirReturned /\ ret.arg[1] <= 0
    /\ Len(pages) > 1 /\ Len(AllEntries) > 2
    /\ ret.data = AllEntries
    /\ dirListCursor > 0 /\ ~dirListDone /\ dirList # <<>>
    /\ returned # <<>>

----------------------------------------------------------------------------
(* Claims on the streams and the cached metadata, checked under Spec *)

\* the reference download of the object from offset s: a full download
\* when s = 0, a range download from s otherwise
ReferenceDownload(s) ==
    Download([Range |-> IF s = 0 THEN NoRange ELSE s], FALSE).stream

\* a step in which the call op is made and returns: the caller was idle, is
\* idle again (or has crashed), ret' is the result of op, and the step is
\* not one of the upload goroutine (each of its steps changes task)
Returns(op) ==
    /\ pc = "idle" /\ pc' \in {"idle", "crashed"}
    /\ ret'.op = op /\ task' = task

\* C2: when the upload of a write stream fails, Close returns exactly the
\* upload's error, neither the end of the failed upload nor that Close
\* changes the cached metadata, and no Stat returns metadata made from the
\* failed upload's response.
C2_FailedUploadKeepsCache ==
    [][/\ task.pc = "returned" /\ TaskFinish /\ task.err # ErrNil =>
             cachedInfo' = cachedInfo
       /\ task.pc = "send" /\ Handshake /\ task.err # ErrNil =>
             ret'.err = task.err /\ cachedInfo' = cachedInfo
       /\ ret'.op = "Stat" /\ pc' = "idle" => ret'.data[1] # NilMetaInfo
      ]_vars

\* C3: on a handle with an open read stream (and no write stream), a Seek
\* to a negative position whose close of the old stream succeeds returns
\* InvalidSeek and leaves no read stream open, and a Read issued after that
\* Seek fails with the file-closed error: it does not crash.
C3_ReadAfterFailedSeek ==
    [][/\ Returns("Seek") /\ streamRead # NoStream /\ streamWrite = "nil" =>
             \A offset \in Offsets, whence \in {SeekStart, SeekCurrent} :
                 /\ Seek(offset, whence, "ok")
                 /\ StartByte(ReadSide, offset, whence) < 0
                 => ret'.err = ErrInvalidSeek /\ streamRead' = NoStream
       /\ Returns("Read") /\ ret.op = "Seek" /\ ret.err = ErrInvalidSeek =>
             \A len \in 1..MaxChunk :
                 Read(len) => ret'.err = ErrFileClosed /\ pc' # "crashed"
      ]_vars

\* C4: on a handle with an open read stream, whatever its read offset, the
\* bytes ReadAt(p, off) returns for off >= 0 are the bytes of the remote
\* object from absolute offset off.
C4_ReadAtIsAbsolute ==
    [][Returns("ReadAt") /\ streamRead # NoStream
          /\ ret'.err \in {ErrNil, ErrEOF} =>
          \A len \in 1..MaxChunk, off \in 0..MaxOff, env \in SeekEnvs :
              ReadAt(len, off, env) => ret'.data = Bytes(off, ret'.val)
      ]_vars

\* the last write stream was closed after its upload succeeded, and no write
\* stream has been opened since
UploadedAndClosed == task.pc = "none" /\ task.meta # NoMeta

\* C5: the Close of a write stream whose upload succeeded returns no error
\* and leaves the metadata of the Upload response cached; from then on,
\* until a write stream is opened again, Stat returns exactly that metadata
\* and issues no metadata fetch.
C5_StatAfterUpload ==
    [][/\ task.pc = "send" /\ Handshake /\ task.err = ErrNil =>
             /\ ret'.err = ErrNil
             /\ task.meta # NoMeta
             /\ cachedInfo' = FileInfo(task.meta)
       /\ UploadedAndClosed' => cachedInfo' = FileInfo(task'.meta)
       /\ UploadedAndClosed /\ pc = "idle" /\ Stat =>
             /\ pc' = "idle"
             /\ ret' = Returned("Stat", <<>>, 0, <<FileInfo(task.meta)>>,
                                ErrNil)
      ]_vars

\* C5 witness: bytes were written, the upload succeeded, the stream was
\* closed and a Stat has returned the uploaded object's metadata unfetched
C5_Witness ==
    /\ UploadedAndClosed
    /\ task.meta.size > 0 /\ task.meta.size # ObjSize
    /\ ret = Returned("Stat", <<>>, 0, <<FileInfo(task.meta)>>, ErrNil)

\* every Read of an open stream delivers the stream's next bytes, in order
ReadsDeliverInOrder ==
    Returns("Read") /\ streamRead.state = "open" =>
        \A len \in 1..MaxChunk :
            Read(len) =>
                /\ ret'.data = Bytes(streamRead.pos, Len(ret'.data))
                /\ streamRead' = [streamRead EXCEPT
                                    !.pos = @ + Len(ret'.data)]

\* C6 as claimed: on a handle with an open read stream, Seek(s, SeekStart)
\* with s >= 0 returns s and leaves the stream of a reference download from
\* s, from which every following Read delivers the next bytes in order.
C6_SeekStartAlways ==
    [][/\ Returns("Seek") /\ streamRead # NoStream =>
             \A s \in 0..MaxOff, env \in SeekEnvs :
                 Seek(s, SeekStart, env) =>
                     /\ ret'.val = s /\ ret'.err = ErrNil
                     /\ streamRead' = ReferenceDownload(s)
       /\ ReadsDeliverInOrder
      ]_vars

\* C6 as amended: the same, on a handle with an open read stream and no
\* write stream, when the close of the old stream and the new download
\* succeed.  When the close fails Seek returns 0 and the wrapped error, and
\* when the download fails it returns s and the wrapped error.
C6_SeekStartThenRead ==
    [][/\ Returns("Seek") /\ streamRead # NoStream /\ streamWrite = "nil" =>
             \A s \in 0..MaxOff, env \in SeekEnvs :
                 Seek(s, SeekStart, env) =>
                     CASE env = "ok" ->
                            /\ ret'.val = s /\ ret'.err = ErrNil
                            /\ streamRead' = ReferenceDownload(s)
                       [] env = "closeFails" ->
                            ret'.val = 0 /\ ret'.err = ErrClosePrevious
                       [] env = "downloadFails" ->
                            ret'.val = s /\ ret'.err = ErrDownload
       /\ ReadsDeliverInOrder
      ]_vars

\* C6 witness: after Seek(1, SeekStart) on a stream that had been read, the
\* handle holds the range download from 1
C6_Witness ==
    /\ ret = Returned("Seek", <<SeekStart>>, 1, <<>>, ErrNil)
    /\ streamRead = ReferenceDownload(1)
    /\ streamRead.pos = 1 /\ Remaining(streamRead) > 0

\* C8: openWriteStream on a handle whose write stream is open returns
\* AlreadyOpened and changes nothing: the goroutine, the pipe, the channel
\* and the cached metadata are as they were.
C8_SecondOpenRefused ==
    [][Returns("OpenWrite") /\ streamWrite # "nil" /\ openWriteStream =>
          /\ ret'.err = ErrAlreadyOpened
          /\ UNCHANGED <<fileVars, pipe, task, remote>>
      ]_vars

\* C8 witness: a second open was refused while the failed upload of the
\* first waits for Close, with metadata cached
C8_Witness ==
    /\ ret = Returned("OpenWrite", <<>>, 0, <<>>, ErrAlreadyOpened)
    /\ streamWrite # "nil" /\ streamWriteCloseErr = "open"
    /\ task.pc = "send" /\ task.err # ErrNil
    /\ cachedInfo # NoInfo

\* C9: Truncate returns NotSupported in every state and for every size;
\* while a write stream is open, Seek and WriteAt return NotSupported for
\* every offset and whence, write nothing to the pipe (WriteAt never waits
\* on it) and leave the streams, the offset and the cached metadata
\* unchanged.
C9_NotSupported ==
    [][/\ Returns("Truncate") =>
             ret'.err = ErrNotSupported /\ UNCHANGED <<fileVars, pipe>>
       /\ Returns("Seek") /\ streamWrite # "nil" =>
             /\ ret'.val = 0 /\ ret'.err = ErrNotSupported
             /\ UNCHANGED <<fileVars, pipe>>
       /\ Returns("WriteAt") /\ streamWrite # "nil" =>
             /\ ret'.val = 0 /\ ret'.err = ErrNotSupported
             /\ UNCHANGED <<fileVars, pipe>>
       /\ pc = "idle" /\ pc' = "Write" =>
             \A len \in 1..MaxChunk, off \in Offsets, env \in SeekEnvs :
                 ~WriteAt(len, off, env)
      ]_vars

\* C9 witness: WriteAt was refused on a handle with a write stream whose
\* upload is running, and with a read stream open too
C9_Witness ==
    /\ ret = Returned("WriteAt", <<>>, 0, <<>>, ErrNotSupported)
    /\ streamWrite # "nil" /\ task.pc = "upload" /\ task.got > 0
    /\ streamRead.state = "open" /\ streamReadOffset > 0

\* a step in which a Close call returns
CloseReturns ==
    \/ pc = "idle" /\ pc' = "idle" /\ \E fail \in BOOLEAN : Close(fail)
    \/ pc = "Close" /\ Handshake

\* C10: Close on a handle with neither stream open returns no error and
\* changes nothing, and a Close that follows a Close returns no error.
C10_SecondCloseSucceeds ==
    [][/\ Returns("Close") /\ streamRead = NoStream /\ streamWrite = "nil" =>
             \A fail \in BOOLEAN :
                 Close(fail) =>
                     /\ ret'.err = ErrNil
                     /\ UNCHANGED <<fileVars, pipe, task>>
       /\ ret.op = "Close" /\ ret'.op = "Close" /\ CloseReturns =>
             ret'.err = ErrNil
      ]_vars

\* C11: in every reachable state at most one of the read stream and the
\* write stream is open.
C11_StreamsExclusive ==
    ~(streamRead.state = "open" /\ streamWrite # "nil")

\* the goroutine of the open write stream is running
TaskLive == task.pc \in {"upload", "returned", "send"}

\* C12: an open write stream has exactly one goroutine and one open
\* channel.  The goroutine sends once: after Upload has returned and after
\* it has written the cached metadata, to a Close that waits, which returns
\* the value sent (nil after a successful upload, the upload's error after a
\* failed one); with the send the goroutine ends.  Close on the write stream
\* returns in no other step, the channel is closed in no other step, and a
\* new channel and a new goroutine come only with a successful open.
C12_OneShotHandshake ==
    [][/\ TaskLive <=> streamWrite # "nil"
       /\ streamWrite # "nil" => streamWriteCloseErr = "open"
       /\ task.pc # "returned" /\ task'.pc = "returned" =>
             /\ task.pc = "upload"
             /\ task'.err = (IF task'.meta = NoMeta THEN ErrUpload ELSE ErrNil)
       /\ task.pc # "send" /\ task'.pc = "send" =>
             /\ task.pc = "returned"
             /\ cachedInfo' = newFileInfo(task.meta)
             /\ task'.err = task.err
       /\ task.pc = "send" /\ task'.pc # "send" =>
             /\ pc = "Close" /\ pc' = "idle"
             /\ streamWriteCloseErr = "open" /\ streamWriteCloseErr' = "nil"
             /\ ret' = Returned("Close", <<"write">>, 0, <<>>, task.err)
             /\ task'.pc = "none"
             /\ streamWrite' = "nil"
       /\ pc = "Close" /\ pc' # "Close" =>
             task.pc = "send" /\ task'.pc = "none"
       /\ streamWriteCloseErr' # streamWriteCloseErr =>
             \/ task.pc = "send" /\ task'.pc = "none"
             \/ /\ task.pc = "none" /\ task'.pc = "upload"
                /\ streamWrite = "nil" /\ streamWrite' # "nil"
                /\ streamWriteCloseErr' = "open"
       /\ task.pc # "upload" /\ task'.pc = "upload" =>
             task.pc = "none" /\ streamWrite = "nil" /\ streamWrite' # "nil"
      ]_vars

\* C12 witness: a Close that waited has received the error of a failed
\* upload; the goroutine has ended and the channel is gone
C12_Witness ==
    /\ ret = Returned("Close", <<"write">>, 0, <<>>, ErrUpload)
    /\ task.pc = "none" /\ streamWriteCloseErr = "nil" /\ streamWrite = "nil"
    /\ streamWriteErr = ErrUpload /\ pipe.closed

\* C13: under SpecLive, every Close that waits for the goroutine of a write
\* stream returns, with the goroutine ended, and every Write that waits on
\* the pipe returns: the caller and the goroutine never wait for ever.
C13_CloseTerminates ==
    /\ (pc = "Close") ~> (pc = "idle" /\ task.pc = "none")
    /\ (pc = "Write") ~> (pc = "idle")

\* C13 witness: a Close that waited has returned after an upload of written
\* bytes succeeded, and the goroutine has ended
C13_Witness ==
    /\ ret = Returned("Close", <<"write">>, 0, <<>>, ErrNil)
    /\ pc = "idle" /\ task.pc = "none" /\ streamWrite = "nil"
    /\ task.meta # NoMeta /\ remote.size > 0 /\ remote.mtime > 0

\* the Upload call of the open write stream has failed
UploadFailed == TaskLive /\ task.err # ErrNil

\* C14: when Upload has failed, the goroutine stores the error and closes
\* the pipe: a Write that waits at that moment returns the closed-pipe
\* error, no Write waits on the pipe afterwards (each returns that error),
\* the upload is not tried again, and the Close of the write stream returns
\* the upload's error.
C14_FailedUploadClosesPipe ==
    /\ [][/\ UploadFailed /\ task.pc = "returned" /\ task'.pc # "returned" =>
                /\ task'.pc = "send"
                /\ streamWriteErr' = task.err
                /\ pipe'.closed
                /\ pc = "Write" =>
                      /\ pc' = "idle"
                      /\ ret' = Returned("Write", <<>>, 0, <<>>,
                                         ErrClosedPipe)
          /\ UploadFailed /\ task.pc = "send" =>
                /\ pipe.closed /\ pc # "Write" /\ pc' # "Write"
                /\ Returns("Write") \/ Returns("WriteAt") =>
                      ret'.val = 0 /\ ret'.err # ErrNil
          /\ UploadFailed =>
                /\ remote' = remote
                /\ task'.pc # "upload"
                /\ task'.pc # "none" => task'.err = task.err
          /\ UploadFailed /\ pc = "Close" /\ pc' # "Close" =>
                /\ pc' = "idle"
                /\ ret' = Returned("Close", <<"write">>, 0, <<>>, ErrUpload)
                /\ task.err = ErrUpload /\ streamWriteErr = ErrUpload
          ]_vars
    /\ (UploadFailed /\ pc = "Write") ~>
           (pc = "idle" /\ ret.op = "Write" /\ ret.err = ErrClosedPipe)

\* C14 witness: the upload failed before any byte was read and before Close;
\* the goroutine has closed the pipe, a Write has returned the closed-pipe
\* error and the goroutine waits for Close with the upload's error
C14_Witness ==
    /\ ret = Returned("Write", <<>>, 0, <<>>, ErrClosedPipe)
    /\ pc = "idle" /\ streamWrite # "nil" /\ pipe.closed
    /\ task.pc = "send" /\ task.err = ErrUpload /\ task.got = 0
    /\ streamWriteErr = ErrUpload

----------------------------------------------------------------------------
(* More claims on the directory listing, checked under SpecDir *)

IsSuffix(s, t) == Len(s) <= Len(t) /\ SubSeq(t, Len(t) - Len(s) + 1, Len(t)) = s

\* the buffer holds entries of the page the stored cursor came with, none of
\* them returned yet, and the cursor and the done flag are those of that
\* page's response
BufferOfLatestPage ==
    /\ pc # "blocked"
    /\ Len(dirList) <= dirListingMaxLimit
    /\ dirListCursor \in 0..Len(pages)
    /\ dirListCursor = 0 => dirList = <<>> /\ ~dirListDone
    /\ dirListCursor > 0 =>
          /\ IsSuffix(dirList, pages[dirListCursor])
          /\ dirListDone <=> dirListCursor = Len(pages)
    /\ \A i \in 1..Len(dirList), j \in 1..Len(returned) :
          dirList[i] # returned[j]

\* C15: in the paged listing, the buffer holds only entries not yet returned
\* of the page fetched last and never more than its capacity, and the cursor
\* is the empty one or that of the last response; a call that fetches (it
\* moves the cursor or returns the fetch error) starts with pagination not
\* done and has emptied the buffer before it fetches, and the cursor only
\* moves forward.
C15_BufferHoldsOnePage ==
    [][/\ BufferOfLatestPage /\ BufferOfLatestPage'
       /\ dirListCursor' >= dirListCursor
       /\ dirListCursor' # dirListCursor =>
             /\ ~dirListDone
             /\ ret'.err = ErrNil => IsPrefix(dirList, ret'.data)
       /\ ret'.op = "Readdir" /\ ret'.err = ErrFetchList =>
             ~dirListDone /\ dirList' = <<>>
       /\ dirListDone => UNCHANGED <<dirListCursor, dirListDone>>
      ]_vars

\* C15 witness: after a failed fetch and fetches that succeeded, the buffer
\* holds the rest of a continuation page and pagination is not done
C15_Witness ==
    /\ dirListCursor > 1 /\ ~dirListDone /\ fetchFailed
    /\ dirList # <<>> /\ Len(dirList) < Len(pages[dirListCursor])
    /\ ret.op = "Readdir" /\ ret.err = ErrNil /\ Len(ret.data) > 1

----------------------------------------------------------------------------
(* More claims on the streams and the cached metadata *)

\* a step in which a write stream is opened
WriteOpens == streamWrite = "nil" /\ streamWrite' # "nil"

\* a Stat of cached metadata returns it and fetches nothing; a fetch that
\* succeeds leaves what it returns cached; a write-open empties the cache
StatUsesCache ==
    /\ pc = "idle" /\ cachedInfo # NoInfo /\ Stat =>
          /\ pc' = "idle"
          /\ ret' = Returned("Stat", <<>>, 0, <<cachedInfo>>, ErrNil)
          /\ cachedInfo' = cachedInfo
    /\ pc = "Stat" /\ pc' # "Stat" =>
          /\ pc' = "idle" /\ ret'.op = "Stat" /\ ret'.val = 1
          /\ ret'.err = ErrNil =>
                cachedInfo' # NoInfo /\ ret'.data = <<cachedInfo'>>
    /\ WriteOpens => cachedInfo' = NoInfo

SeekTarget(offset, whence) ==
    CASE whence = SeekStart   -> offset
      [] whence = SeekCurrent -> streamReadOffset + offset
      [] whence = SeekEnd     -> cachedInfo.size - offset

\* C17: with an open read stream and no write stream, a Seek whose target
\* is not negative and whose close and download succeed returns the target
\* and leaves one read stream open, a new download from the target, with
\* the read offset at the target; with neither stream open Seek returns the
\* file-closed error and changes nothing.
C17_SeekReopensAtTarget ==
    [][/\ Returns("Seek") /\ streamRead # NoStream /\ streamWrite = "nil" =>
             \A offset \in Offsets, whence \in Whences :
                 Seek(offset, whence, "ok") /\ SeekTarget(offset, whence) >= 0
                 => /\ ret'.val = SeekTarget(offset, whence)
                    /\ ret'.err = ErrNil
                    /\ streamRead' = ReferenceDownload(SeekTarget(offset, whence))
                    /\ streamReadOffset' = SeekTarget(offset, whence)
       /\ Returns("Seek") /\ streamRead = NoStream /\ streamWrite = "nil" =>
             /\ ret'.val = 0 /\ ret'.err = ErrFileClosed
             /\ UNCHANGED <<fileVars, pipe>>
      ]_vars


\* C18: whenever a read stream is open, streamReadOffset is the absolute
\* position in the remote object of the next byte the stream delivers: the
\* offset the stream was opened at plus every byte the Reads on it have
\* returned, those returned together with end-of-data included.
C18_ReadOffsetIsStreamPosition ==
    streamRead.state = "open" => streamReadOffset = streamRead.pos

----------------------------------------------------------------------------
(* Claims on failed fetches and on termination of the paged listing,       *)
(* checked under SpecDir                                                   *)

\* C19: a Readdir(n > 0) call that fails on a page fetch consumes no
\* entries: whether or not fetches have failed, the entries the successful
\* calls have returned, one call after the other, are the listing's entries
\* in server order with none left out.
C19_FailedFetchDropsNothing ==
    \A i \in 1..Len(returned) : i <= Len(AllEntries) /\ returned[i] = AllEntries[i]

\* what is left to do for a call in the loop: the pages not yet fetched and
\* the entries not yet collected
ReaddirVariant(list, s, count) ==
    (Len(pages) - s.dirListCursor) + (count - Len(list))

\* the loop of Readdir(count), followed pass by pass from list and paging
\* state s: no fetch blocks on the queue, and every pass either ends the
\* call with the fetch's error or leaves strictly less to do, fetching a
\* page or collecting an entry, without ever going below nothing left
RECURSIVE ReaddirProgresses(_, _, _, _)
ReaddirProgresses(list, s, count, failIn) ==
    IF ~(Len(list) < count /\ ~s.dirListDone) THEN TRUE
    ELSE LET n == ReaddirStep(list, s, count, failIn = 1)
         IN  IF n.err # ErrNil THEN n.err = ErrFetchList
             ELSE /\ ReaddirVariant(n.list, n.st, count)
                        < ReaddirVariant(list, s, count)
                  /\ ReaddirVariant(n.list, n.st, count) >= 0
                  /\ \/ n.st.dirListCursor > s.dirListCursor
                     \/ Len(n.list) > Len(list)
                  /\ ReaddirProgresses(n.list, n.st, count, failIn - 1)

\* C20: for a listing of finitely many pages, none larger than the queue's
\* capacity and the last one reporting no more pages, every Readdir(n > 0)
\* terminates: no call is left blocked on the queue, and every call that
\* can be made in a reachable state, whichever fetch fails, goes through
\* its loop with progress on every pass, and the loop run as a whole ends
\* with entries or with the fetch's error.
C20_ReaddirTerminates ==
    /\ pc # "blocked"
    /\ pc = "idle" =>
          \A count \in 1..MaxCount :
              \A failIn \in 0..MaxFetches(count) :
                  /\ ReaddirProgresses(<<>>, DirState, count, failIn)
                  /\ ReaddirLoop(<<>>, DirState, count, failIn).err
                        \in {ErrNil, ErrFetchList}

\* one Readdir(n > 0) call has fetched two pages or more, the last one
\* full, has collected n entries and returned, entries left in the queue
C20_Witness ==
    /\ pc = "idle" /\ ReaddirReturned /\ ret.arg[1] = MaxCount
    /\ Len(ret.data) = MaxCount /\ returned = ret.data /\ ~fetchFailed
    /\ dirListCursor >= 2 /\ Len(pages[dirListCursor]) = MaxPageLen
    /\ Len(dirList) > 0

====
